---------------------------- MODULE Spec2Model ----------------------------
(***************************************************************************)
(* Model of om_wikiparser's wm module: the Title parsers of                *)
(* src/wm/title.rs and the file readers of src/wm/mod.rs.                  *)
(*                                                                         *)
(* Text is modelled as the sequence of its UTF-8 bytes (a Rust &str), so   *)
(* that trimming, splitting, percent-encoding and percent-decoding are     *)
(* computed and not assumed.  The byte values used below:                  *)
(*   9 TAB  10 LF  11 VT  12 FF  13 CR  32 SPACE  35 #  37 %  43 +  45 -   *)
(*   46 .  47 /  48..57 0-9  58 :  63 ?  64 @  65..90 A-Z  92 \  95 _      *)
(*   97..122 a-z                                                           *)
(***************************************************************************)
EXTENDS Integers, Sequences, FiniteSets, TLC

(***************************************************************************)
(* Bounds of the model.                                                    *)
(***************************************************************************)
MaxInputLen == 2
MaxLines == 3
MaxRows == 2

(***************************************************************************)
(* &str helpers of the Rust standard library, as the parsers use them.     *)
(***************************************************************************)
\* char::is_whitespace restricted to ASCII: what str::trim strips.
WhiteSpace == {9, 10, 11, 12, 13, 32}

IsAsciiAlphabetic(c) == (c >= 65 /\ c <= 90) \/ (c >= 97 /\ c <= 122)

IsAsciiDigit(c) == c >= 48 /\ c <= 57

ToAsciiLowercase(s) ==
    [i \in 1..Len(s) |-> IF s[i] >= 65 /\ s[i] <= 90 THEN s[i] + 32 ELSE s[i]]

\* Index of the first element of s that is not in set, Len(s) + 1 if none.
FirstNotIn(s, set) ==
    IF \A i \in 1..Len(s) : s[i] \in set THEN Len(s) + 1
    ELSE CHOOSE i \in 1..Len(s) :
            s[i] \notin set /\ \A j \in 1..(i - 1) : s[j] \in set

\* Index of the last element of s that is not in set, 0 if none.
LastNotIn(s, set) ==
    IF \A i \in 1..Len(s) : s[i] \in set THEN 0
    ELSE CHOOSE i \in 1..Len(s) :
            s[i] \notin set /\ \A j \in (i + 1)..Len(s) : s[j] \in set

TrimStart(s) == SubSeq(s, FirstNotIn(s, WhiteSpace), Len(s))

Trim(s) == LET t == TrimStart(s) IN SubSeq(t, 1, LastNotIn(t, WhiteSpace))

\* Index of the first element of s that is in set, 0 if none.
FirstIn(s, set) ==
    IF \A i \in 1..Len(s) : s[i] \notin set THEN 0
    ELSE CHOOSE i \in 1..Len(s) :
            s[i] \in set /\ \A j \in 1..(i - 1) : s[j] \notin set

\* Index of the last element of s that is in set, 0 if none.
LastIn(s, set) ==
    IF \A i \in 1..Len(s) : s[i] \notin set THEN 0
    ELSE CHOOSE i \in 1..Len(s) :
            s[i] \in set /\ \A j \in (i + 1)..Len(s) : s[j] \notin set

\* str::split_once(c): Option<(left, right)> at the first c.
SplitOnce(s, c) ==
    LET i == FirstIn(s, {c})
    IN  [found |-> i > 0,
         left  |-> SubSeq(s, 1, i - 1),
         right |-> SubSeq(s, i + 1, Len(s))]

StartsWith(s, p) == Len(s) >= Len(p) /\ SubSeq(s, 1, Len(p)) = p

\* str::strip_prefix(p).unwrap_or(s)
StripPrefixOr(s, p) ==
    IF StartsWith(s, p) THEN SubSeq(s, Len(p) + 1, Len(s)) ELSE s

\* str::replace for one-byte patterns.
Replace(s, a, b) == [i \in 1..Len(s) |-> IF s[i] = a THEN b ELSE s[i]]

\* Concatenation of the pieces p[lo..hi] (balanced, so the depth stays small).
RECURSIVE Flat(_, _, _)
Flat(p, lo, hi) ==
    IF lo > hi THEN <<>>
    ELSE IF lo = hi THEN p[lo]
    ELSE LET mid == (lo + hi) \div 2
         IN  Flat(p, lo, mid) \o Flat(p, mid + 1, hi)

(***************************************************************************)
(* String literals of the source.                                          *)
(***************************************************************************)
sHttp == <<104, 116, 116, 112>>                                \* "http"
sHttps == <<104, 116, 116, 112, 115>>                          \* "https"
sHttpSlashes == <<104, 116, 116, 112, 58, 47, 47>>             \* "http://"
sHttpsSlashes == <<104, 116, 116, 112, 115, 58, 47, 47>>       \* "https://"
sMDot == <<109, 46>>                                           \* "m."
sWikipediaOrg ==                                               \* "wikipedia.org"
    <<119, 105, 107, 105, 112, 101, 100, 105, 97, 46, 111, 114, 103>>
sWiki == <<119, 105, 107, 105>>                                \* "wiki"
sSlash == <<47>>                                               \* "/"

(***************************************************************************)
(* usize arithmetic of the title-length check: `!title.len() < 256` is     *)
(* `(!title.len()) < 256`, the bitwise complement of a 64-bit usize        *)
(* compared with 256.  Values are kept as bit vectors, bit 0 the lowest.   *)
(***************************************************************************)
UsizeBits == 64

TitleMaxLen == 256

\* Bit i of a length n.  A length the model holds is below 2^31, so its bits
\* from 31 up are 0.
BitOf(n, i) == IF i >= 31 THEN 0 ELSE (n \div (2 ^ i)) % 2

UsizeOf(n) == [i \in 0..(UsizeBits - 1) |-> BitOf(n, i)]

UsizeNot(b) == [i \in 0..(UsizeBits - 1) |-> 1 - b[i]]

UsizeLt(a, b) ==
    \E i \in 0..(UsizeBits - 1) :
        a[i] < b[i] /\ \A j \in (i + 1)..(UsizeBits - 1) : a[j] = b[j]

(***************************************************************************)
(* Results: Result<Title, ParseTitleError>.                                *)
(***************************************************************************)
Ok(lang, name) == [ok |-> TRUE, err |-> "", lang |-> lang, name |-> name]

Err(e) == [ok |-> FALSE, err |-> e, lang |-> <<>>, name |-> <<>>]

\* A call that has not returned yet.
Pending == Err("pending")

(***************************************************************************)
(* url::Url::parse, for what from_url reads of it: host_str() and path().  *)
(* Covered: the scheme, the special schemes' authority (userinfo, port,    *)
(* forbidden host code points, lowercasing of the host), the path (the     *)
(* backslash as a separator, dot segments, percent-encoding) and the       *)
(* removal of the query and the fragment.  Not covered (no input of the    *)
(* model has them): IPv4/IPv6 hosts, IDNA mapping of non-ASCII or "xn--"   *)
(* labels, percent-encoded hosts, the file scheme.                         *)
(***************************************************************************)
UrlOk(hasHost, host, path) ==
    [ok |-> TRUE, hasHost |-> hasHost, host |-> host, path |-> path]

UrlErr == [ok |-> FALSE, hasHost |-> FALSE, host |-> <<>>, path |-> <<>>]

SpecialSchemes ==
    { sHttp, sHttps,
      <<102, 116, 112>>,          \* "ftp"
      <<119, 115>>,               \* "ws"
      <<119, 115, 115>> }         \* "wss"

\* Forbidden host code points of a domain.
ForbiddenHost ==
    {0, 9, 10, 13, 32, 35, 37, 47, 58, 60, 62, 63, 64, 91, 92, 93, 94, 124}

\* The path percent-encode set: C0 controls, space, " # < > ? ` { } and
\* everything from DEL up.
InPathSet(c) == c <= 32 \/ c \in {34, 35, 60, 62, 63, 96, 123, 125} \/ c >= 127

HexDigit(n) == IF n < 10 THEN 48 + n ELSE 55 + n

IsHex(c) == IsAsciiDigit(c) \/ (c >= 65 /\ c <= 70) \/ (c >= 97 /\ c <= 102)

HexVal(c) == IF IsAsciiDigit(c) THEN c - 48
             ELSE IF c >= 97 THEN c - 87 ELSE c - 55

PercentEncodePath(seg) ==
    Flat([i \in 1..Len(seg) |->
            IF InPathSet(seg[i])
            THEN <<37, HexDigit(seg[i] \div 16), HexDigit(seg[i] % 16)>>
            ELSE <<seg[i]>>], 1, Len(seg))

\* Leading and trailing C0 controls and spaces are stripped, then every
\* tab and newline is removed.
UrlStrip(s) ==
    LET c0 == 0..32
        t  == SubSeq(s, FirstNotIn(s, c0), Len(s))
        u  == SubSeq(t, 1, LastNotIn(t, c0))
    IN  SelectSeq(u, LAMBDA c : c \notin {9, 10, 13})

\* The k-th (1-based) smallest element of a set of integers.
KthOf(set, k) == CHOOSE i \in set : Cardinality({j \in set : j <= i}) = k

\* s split at every '/' (str::split).
SplitSlash(s) ==
    LET at == {i \in 1..Len(s) : s[i] = 47}
        n  == Cardinality(at)
        cut == [k \in 0..(n + 1) |->
                  IF k = 0 THEN 0
                  ELSE IF k = n + 1 THEN Len(s) + 1 ELSE KthOf(at, k)]
    IN  [k \in 1..(n + 1) |-> SubSeq(s, cut[k - 1] + 1, cut[k] - 1)]

pct2e == {<<37, 50, 101>>, <<37, 50, 69>>}       \* "%2e", "%2E"

IsSingleDot(seg) == seg = <<46>> \/ seg \in pct2e

IsDoubleDot(seg) ==
    \/ seg = <<46, 46>>
    \/ \E p \in pct2e : seg = <<46>> \o p \/ seg = p \o <<46>>
    \/ \E p \in pct2e, q \in pct2e : seg = p \o q

\* The path state of the URL parser over the segments from the i-th on.
RECURSIVE PathSegments(_, _, _)
PathSegments(segs, i, stack) ==
    IF i > Len(segs) THEN stack
    ELSE LET seg  == segs[i]
             last == i = Len(segs)
         IN  IF IsDoubleDot(seg)
             THEN LET st == SubSeq(stack, 1, Len(stack) - 1)
                  IN  PathSegments(segs, i + 1,
                                   IF last THEN Append(st, <<>>) ELSE st)
             ELSE IF IsSingleDot(seg)
             THEN PathSegments(segs, i + 1,
                               IF last THEN Append(stack, <<>>) ELSE stack)
             ELSE PathSegments(segs, i + 1,
                               Append(stack, PercentEncodePath(seg)))

\* Url::path() of a URL whose text after the authority, up to the query or
\* fragment, is raw.  A special scheme takes '\' for '/' and has path "/" at
\* least.
UrlPath(raw, special) ==
    LET r == IF special THEN Replace(raw, 92, 47) ELSE raw
        segs == IF r = <<>> THEN <<>> ELSE SplitSlash(SubSeq(r, 2, Len(r)))
        st == PathSegments(segs, 1, <<>>)
    IN  IF st = <<>> THEN (IF special \/ r # <<>> THEN sSlash ELSE <<>>)
        ELSE Flat([k \in 1..Len(st) |-> sSlash \o st[k]], 1, Len(st))

\* The authority and what follows it.
UrlAuthority(rest, special) ==
    LET stop == IF special THEN {47, 92, 63, 35} ELSE {47, 63, 35}
        e    == FirstIn(rest, stop)
        auth == IF e = 0 THEN rest ELSE SubSeq(rest, 1, e - 1)
        tail == IF e = 0 THEN <<>> ELSE SubSeq(rest, e, Len(rest))
        hp   == SubSeq(auth, LastIn(auth, {64}) + 1, Len(auth))
        c    == LastIn(hp, {58})
        host == IF c = 0 THEN hp ELSE SubSeq(hp, 1, c - 1)
        port == IF c = 0 THEN <<>> ELSE SubSeq(hp, c + 1, Len(hp))
        q    == FirstIn(tail, {63, 35})
        raw  == IF q = 0 THEN tail ELSE SubSeq(tail, 1, q - 1)
    IN  IF (\E i \in 1..Len(port) : ~IsAsciiDigit(port[i])) \/ Len(port) > 5
        THEN UrlErr                                    \* InvalidPort
        ELSE IF \E i \in 1..Len(host) : host[i] \in ForbiddenHost
        THEN UrlErr                                    \* InvalidDomainCharacter
        ELSE IF special
        THEN IF host = <<>> THEN UrlErr                \* EmptyHost
             ELSE UrlOk(TRUE, ToAsciiLowercase(host), UrlPath(raw, TRUE))
        ELSE UrlOk(host # <<>>, host, UrlPath(raw, FALSE))

UrlParse(input) ==
    LET s  == UrlStrip(input)
        sp == SplitOnce(s, 58)
    IN  IF \/ ~sp.found
           \/ sp.left = <<>>
           \/ ~IsAsciiAlphabetic(sp.left[1])
           \/ \E i \in 1..Len(sp.left) :
                 ~(\/ IsAsciiAlphabetic(sp.left[i])
                   \/ IsAsciiDigit(sp.left[i])
                   \/ sp.left[i] \in {43, 45, 46})
        THEN UrlErr                                    \* RelativeUrlWithoutBase
        ELSE IF ToAsciiLowercase(sp.left) \in SpecialSchemes
        THEN UrlAuthority(
                 SubSeq(sp.right, FirstNotIn(sp.right, {47, 92}), Len(sp.right)),
                 TRUE)
        ELSE IF StartsWith(sp.right, <<47, 47>>)
        THEN UrlAuthority(SubSeq(sp.right, 3, Len(sp.right)), FALSE)
        ELSE UrlOk(FALSE, <<>>, sp.right)

(***************************************************************************)
(* urlencoding::decode: every "%XX" with two hex digits becomes the byte   *)
(* XX, everything else is kept; the bytes must then be valid UTF-8.        *)
(***************************************************************************)
PercentDecode(s) ==
    LET esc == {i \in 1..(Len(s) - 2) :
                   s[i] = 37 /\ IsHex(s[i + 1]) /\ IsHex(s[i + 2])}
    IN  Flat([i \in 1..Len(s) |->
                IF i \in esc THEN <<16 * HexVal(s[i + 1]) + HexVal(s[i + 2])>>
                ELSE IF (i - 1) \in esc \/ (i - 2) \in esc THEN <<>>
                ELSE <<s[i]>>], 1, Len(s))

IsCont(s, i, lo, hi) == i <= Len(s) /\ s[i] >= lo /\ s[i] <= hi

\* Length of the well-formed UTF-8 sequence that starts at s[i], 0 if none.
Utf8SeqLen(s, i) ==
    LET b == s[i]
    IN  IF b < 128 THEN 1
        ELSE IF b >= 194 /\ b <= 223
        THEN IF IsCont(s, i + 1, 128, 191) THEN 2 ELSE 0
        ELSE IF b >= 224 /\ b <= 239
        THEN IF /\ IsCont(s, i + 1, IF b = 224 THEN 160 ELSE 128,
                                    IF b = 237 THEN 159 ELSE 191)
                /\ IsCont(s, i + 2, 128, 191) THEN 3 ELSE 0
        ELSE IF b >= 240 /\ b <= 244
        THEN IF /\ IsCont(s, i + 1, IF b = 240 THEN 144 ELSE 128,
                                    IF b = 244 THEN 143 ELSE 191)
                /\ IsCont(s, i + 2, 128, 191)
                /\ IsCont(s, i + 3, 128, 191) THEN 4 ELSE 0
        ELSE 0

\* String::from_utf8 succeeds on s[i..].
RECURSIVE Utf8ValidFrom(_, _)
Utf8ValidFrom(s, i) ==
    IF \A j \in i..Len(s) : s[j] < 128 THEN TRUE
    ELSE LET j == CHOOSE j \in i..Len(s) :
                     s[j] >= 128 /\ \A k \in i..(j - 1) : s[k] < 128
             n == Utf8SeqLen(s, j)
         IN  n > 0 /\ Utf8ValidFrom(s, j + n)

(***************************************************************************)
(* Title (src/wm/title.rs).                                                *)
(***************************************************************************)
\* normalize_title without the replace.
normalize_title_NoReplace(title) == Trim(title)

normalize_title(title) == Replace(Trim(title), 32, 95)

from_title(title, lang) ==
    LET t == Trim(title)
        l == Trim(lang)
    IN  IF t = <<>> THEN Err("NoTitle")
        ELSE IF UsizeLt(UsizeNot(UsizeOf(Len(t))), UsizeOf(TitleMaxLen))
        THEN Err("TitleLong")
        ELSE IF l = <<>> THEN Err("NoLang")
        ELSE IF \E i \in 1..Len(l) : ~(IsAsciiAlphabetic(l[i]) \/ l[i] = 45)
        THEN Err("LangBadChar")
        ELSE Ok(ToAsciiLowercase(l), normalize_title(t))

\* from_url, the host: the language is the text before the first dot, the
\* rest is wikipedia.org after one optional "m.".
url_host_lang_NoMobile(parsed) ==
    LET sp == SplitOnce(parsed.host, 46)
    IN  IF ~parsed.hasHost THEN [err |-> "NoHost", lang |-> <<>>]
        ELSE IF ~sp.found THEN [err |-> "NoSubdomain", lang |-> <<>>]
        ELSE IF sp.right # sWikipediaOrg THEN [err |-> "BadDomain", lang |-> <<>>]
        ELSE [err |-> "", lang |-> sp.left]

url_host_lang(parsed) ==
    LET sp == SplitOnce(parsed.host, 46)
        host == StripPrefixOr(sp.right, sMDot)
    IN  IF ~parsed.hasHost THEN [err |-> "NoHost", lang |-> <<>>]
        ELSE IF ~sp.found THEN [err |-> "NoSubdomain", lang |-> <<>>]
        ELSE IF host # sWikipediaOrg THEN [err |-> "BadDomain", lang |-> <<>>]
        ELSE [err |-> "", lang |-> sp.left]

\* from_url, the path: the root segment is "wiki", the title is all that
\* follows it, percent-decoded.
url_path_title_FirstSegment(path) ==
    LET pp == SplitOnce(StripPrefixOr(path, sSlash), 47)
        seg == SplitOnce(pp.right, 47)
        title == PercentDecode(IF seg.found THEN seg.left ELSE pp.right)
    IN  IF ~pp.found THEN [err |-> "ShortPath", title |-> <<>>]
        ELSE IF pp.left # sWiki THEN [err |-> "BadPath", title |-> <<>>]
        ELSE IF ~Utf8ValidFrom(title, 1) THEN [err |-> "UrlDecode", title |-> <<>>]
        ELSE [err |-> "", title |-> title]

url_path_title(path) ==
    LET pp == SplitOnce(StripPrefixOr(path, sSlash), 47)
        title == PercentDecode(pp.right)
    IN  IF ~pp.found THEN [err |-> "ShortPath", title |-> <<>>]
        ELSE IF pp.left # sWiki THEN [err |-> "BadPath", title |-> <<>>]
        ELSE IF ~Utf8ValidFrom(title, 1) THEN [err |-> "UrlDecode", title |-> <<>>]
        ELSE [err |-> "", title |-> title]

from_url(url) ==
    LET u == Trim(url)
        parsed == UrlParse(u)
        h == url_host_lang(parsed)
        p == url_path_title(parsed.path)
    IN  IF u = <<>> THEN Err("Empty")
        ELSE IF ~parsed.ok THEN Err("Url")
        ELSE IF h.err # "" THEN Err(h.err)
        ELSE IF p.err # "" THEN Err(p.err)
        ELSE from_title(p.title, h.lang)

\* from_osm_tag without the trim_start of line 94.
from_osm_tag_NoTrimStart(tag) ==
    LET t == Trim(tag)
        sp == SplitOnce(t, 58)
        lang == TrimStart(sp.left)
        title == sp.right
    IN  IF t = <<>> THEN Err("Empty")
        ELSE IF ~sp.found THEN Err("MissingColon")
        ELSE IF lang = sHttp \/ lang = sHttps THEN from_url(t)
        ELSE IF StartsWith(title, sHttpSlashes) \/ StartsWith(title, sHttpsSlashes)
        THEN from_url(title)
        ELSE from_title(title, lang)

from_osm_tag(tag) ==
    LET t == Trim(tag)
        sp == SplitOnce(t, 58)
        lang == TrimStart(sp.left)
        title == TrimStart(sp.right)
    IN  IF t = <<>> THEN Err("Empty")
        ELSE IF ~sp.found THEN Err("MissingColon")
        ELSE IF lang = sHttp \/ lang = sHttps THEN from_url(t)
        ELSE IF StartsWith(title, sHttpSlashes) \/ StartsWith(title, sHttpsSlashes)
        THEN from_url(title)
        ELSE from_title(title, lang)

(***************************************************************************)
(* State.                                                                  *)
(*                                                                         *)
(* The Title parsers are pure: a run draws the arguments and applies them. *)
(* mode "pair" runs the four calls of the Title doc test on one            *)
(* (title, lang) pair: from_title, from_url on the desktop URL, from_url   *)
(* on the mobile URL and from_osm_tag on "lang:title"; mode "url" is one   *)
(* from_url call and mode "tag" one from_osm_tag call on arbitrary text.   *)
(***************************************************************************)
VARIABLES
    mode, pc,               \* which calls are made, and the next one
    title, lang,            \* the arguments of from_title
    url, murl,              \* the arguments of from_url
    tag,                    \* the argument of from_osm_tag
    ret_title, ret_url, ret_mobile, ret_tag     \* what the calls returned

titleVars ==
    <<mode, pc, title, lang, url, murl, tag,
      ret_title, ret_url, ret_mobile, ret_tag>>

\* The state of a call of parse_osm_tag_file (src/wm/mod.rs).
VARIABLES
    f_readable,             \* the file opens and its header can be read
    f_header,               \* the header's column names
    t_pc,                   \* where the call is
    t_ret,                  \* what the call returned
    qid_col, title_col, osm_id_col,     \* Option<usize>, zero-based
    row,                    \* the record of this iteration
    osm_id,                 \* Option<usize>, of this iteration
    last,                   \* what the last read_record came to
    rows_read,              \* data rows consumed so far
    rec_line,               \* the line of the file the last row is on
    pos_line,               \* rdr.position().line()
    qids, titles,           \* the caller's sets
    line_errors,            \* Option<&mut Vec<ParseLineError>>
    qids0, titles0, errs0   \* what the caller passed in

tagVars ==
    <<f_readable, f_header, t_pc, t_ret, qid_col, title_col, osm_id_col, row,
      osm_id, last, rows_read, rec_line, pos_line, qids, titles, line_errors,
      qids0, titles0, errs0>>

\* The state of a call of parse_wikidata_file or parse_wikipedia_file
\* (src/wm/mod.rs).
VARIABLES
    l_kind,                 \* which of the two readers
    l_file,                 \* the text of the file
    l_perm,                 \* the text of the file with its lines reordered
    l_call,                 \* 1: the call on l_file, 2: the call on l_perm
    l_pc,                   \* where the call is
    l_i,                    \* lines consumed by the iterator
    l_set,                  \* the HashSet collect builds
    l_ret,                  \* what the call returned
    l_first                 \* what the call on l_file returned

listVars == <<l_kind, l_file, l_perm, l_call, l_pc, l_i, l_set, l_ret, l_first>>

\* All byte strings of length at most n over the alphabet S.
BoundedSeq(S, n) == UNION {[1..k -> S] : k \in 0..n}

\* A title of n bytes.
LongTitle(n) == [i \in 1..n |-> 65]

TitleAlphabet == {65, 32, 35, 37, 46, 47, 58, 63, 92}

SpecialTitles ==
    { <<65, 114, 116, 105, 99, 108, 101, 32, 84, 105, 116, 108, 101>>,    \* "Article Title"
      <<66, 114, 101, 105, 108, 47, 66, 114, 105, 103, 101, 108, 115>>,    \* "Breil/Brigels"
      <<37, 52, 49>>,    \* "%41"
      <<37, 50, 101>>,    \* "%2e"
      <<32, 65, 32>>,    \* " A "
      <<65, 9, 66>>,    \* "A\tB"
      <<65, 95, 66>>,    \* "A_B"
      <<65, 47, 46>>,    \* "A/."
      <<104, 116, 116, 112, 58, 47, 47, 65>>,    \* "http://A"
      <<104, 116, 116, 112, 115, 58, 47, 47, 101, 110, 46, 119, 105, 107, 105, 112, 101, 100, 105, 97, 46, 111, 114, 103, 47, 119, 105, 107, 105, 47, 65>>,    \* "https://en.wikipedia.org/wiki/A"
      LongTitle(TitleMaxLen - 1),    \* 255 bytes
      LongTitle(TitleMaxLen),    \* 256 bytes
      <<32>> \o LongTitle(TitleMaxLen) \o <<32>> }    \* 256 bytes between spaces

Titles == BoundedSeq(TitleAlphabet, MaxInputLen) \cup SpecialTitles

Langs ==
    { <<101, 110>>,    \* "en"
      <<68, 101>>,    \* "De"
      <<122, 104, 45, 109, 105, 110, 45, 110, 97, 110>>,    \* "zh-min-nan"
      <<104, 116, 116, 112>>,    \* "http"
      <<32, 101, 110>>,    \* " en"
      <<9, 101, 110>>,    \* "\ten"
      <<>>,    \* ""
      <<101, 49>> }    \* "e1"

sDotWikipediaOrgWiki ==               \* ".wikipedia.org/wiki/"
    <<46, 119, 105, 107, 105, 112, 101, 100, 105, 97, 46, 111, 114, 103, 47, 119, 105, 107, 105, 47>>

sDotMDotWikipediaOrgWiki ==           \* ".m.wikipedia.org/wiki/"
    <<46, 109, 46, 119, 105, 107, 105, 112, 101, 100, 105, 97, 46, 111, 114, 103, 47, 119, 105, 107, 105, 47>>

\* https://<lang>.wikipedia.org/wiki/<title>
DesktopUrl(t, l) == sHttpsSlashes \o l \o sDotWikipediaOrgWiki \o t

\* https://<lang>.m.wikipedia.org/wiki/<title>
MobileUrl(t, l) == sHttpsSlashes \o l \o sDotMDotWikipediaOrgWiki \o t

\* <lang>:<title>
OsmTag(t, l) == l \o <<58>> \o t

UrlSchemes ==
    { <<104, 116, 116, 112, 115, 58, 47, 47>>,    \* "https://"
      <<104, 116, 116, 112, 58, 47, 47>>,    \* "http://"
      <<72, 84, 84, 80, 83, 58, 47, 47>>,    \* "HTTPS://"
      <<102, 116, 112, 58, 47, 47>>,    \* "ftp://"
      <<102, 111, 111, 58, 47, 47>> }    \* "foo://"

UrlHosts ==
    { <<101, 110, 46, 119, 105, 107, 105, 112, 101, 100, 105, 97, 46, 111, 114, 103>>,    \* "en.wikipedia.org"
      <<101, 110, 46, 109, 46, 119, 105, 107, 105, 112, 101, 100, 105, 97, 46, 111, 114, 103>>,    \* "en.m.wikipedia.org"
      <<109, 46, 119, 105, 107, 105, 112, 101, 100, 105, 97, 46, 111, 114, 103>>,    \* "m.wikipedia.org"
      <<101, 110, 46, 109, 46, 109, 46, 119, 105, 107, 105, 112, 101, 100, 105, 97, 46, 111, 114, 103>>,    \* "en.m.m.wikipedia.org"
      <<69, 78, 46, 87, 105, 107, 105, 112, 101, 100, 105, 97, 46, 79, 114, 103>>,    \* "EN.Wikipedia.Org"
      <<119, 105, 107, 105, 112, 101, 100, 105, 97, 46, 111, 114, 103>>,    \* "wikipedia.org"
      <<119, 105, 107, 105, 100, 97, 116, 97, 46, 111, 114, 103>>,    \* "wikidata.org"
      <<101, 110, 46, 119, 105, 107, 105, 112, 101, 100, 105, 97, 46, 99, 111, 109>>,    \* "en.wikipedia.com"
      <<108, 111, 99, 97, 108, 104, 111, 115, 116>>,    \* "localhost"
      <<101, 32, 110, 46, 119, 105, 107, 105, 112, 101, 100, 105, 97, 46, 111, 114, 103>>,    \* "e n.wikipedia.org"
      <<>> }    \* ""

UrlPaths ==
    { <<>>,    \* ""
      <<47>>,    \* "/"
      <<47, 119, 105, 107, 105>>,    \* "/wiki"
      <<47, 119, 105, 107, 105, 47>>,    \* "/wiki/"
      <<47, 119, 105, 107, 105, 47, 65>>,    \* "/wiki/A"
      <<47, 119, 105, 107, 105, 47, 66, 114, 101, 105, 108, 47, 66, 114, 105, 103, 101, 108, 115>>,    \* "/wiki/Breil/Brigels"
      <<47, 119, 105, 107, 105, 47, 65, 32, 66>>,    \* "/wiki/A B"
      <<47, 119, 105, 107, 105, 47, 37, 52, 49, 37, 50, 48, 98>>,    \* "/wiki/%41%20b"
      <<47, 119, 105, 107, 105, 47, 37, 70, 70>>,    \* "/wiki/%FF"
      <<47, 119, 105, 107, 105, 47, 37, 67, 51, 37, 65, 57>>,    \* "/wiki/%C3%A9"
      <<47, 119, 105, 107, 105, 47, 37, 50, 48>>,    \* "/wiki/%20"
      <<47, 119, 105, 107, 105, 47, 97, 47, 46, 46, 47, 98>>,    \* "/wiki/a/../b"
      <<47, 119, 105, 107, 105, 47, 46>>,    \* "/wiki/."
      <<47, 119, 47, 65>>,    \* "/w/A"
      <<47, 110, 111, 116, 95, 97, 95, 119, 105, 107, 105, 95, 112, 97, 103, 101>>,    \* "/not_a_wiki_page"
      <<47, 47, 119, 105, 107, 105, 47, 65>>,    \* "//wiki/A"
      <<47, 87, 105, 107, 105, 47, 65>>,    \* "/Wiki/A"
      <<92, 119, 105, 107, 105, 92, 65>> }    \* "\\wiki\\A"

UrlSuffixes ==
    { <<>>,    \* ""
      <<35, 83, 101, 99, 116, 105, 111, 110>>,    \* "#Section"
      <<63, 97, 61, 98>> }    \* "?a=b"

OtherUrls ==
    { <<>>,    \* ""
      <<32, 32>>,    \* "  "
      <<103, 97, 114, 98, 97, 103, 101>>,    \* "garbage"
      <<101, 110, 58, 65>>,    \* "en:A"
      <<104, 116, 116, 112, 58, 88>>,    \* "http:X"
      <<109, 97, 105, 108, 116, 111, 58, 97, 64, 98>>,    \* "mailto:a@b"
      <<32, 104, 116, 116, 112, 115, 58, 47, 47, 101, 110, 46, 119, 105, 107, 105, 112, 101, 100, 105, 97, 46, 111, 114, 103, 47, 119, 105, 107, 105, 47, 65, 10>>,    \* " https://en.wikipedia.org/wiki/A\n"
      sHttpsSlashes \o <<101, 110>> \o sDotWikipediaOrgWiki \o LongTitle(TitleMaxLen) }    \* a 256-byte title

Urls ==
    {s \o h \o p \o x :
        s \in UrlSchemes, h \in UrlHosts, p \in UrlPaths, x \in UrlSuffixes}
    \cup OtherUrls

TagLefts ==
    { <<101, 110>>,    \* "en"
      <<68, 101>>,    \* "De"
      <<104, 116, 116, 112>>,    \* "http"
      <<104, 116, 116, 112, 115>>,    \* "https"
      <<72, 84, 84, 80>>,    \* "HTTP"
      <<104, 116, 116, 112, 32>>,    \* "http "
      <<102, 116, 112>>,    \* "ftp"
      <<101, 49>>,    \* "e1"
      <<>> }    \* ""

TagPads ==
    { <<>>,    \* ""
      <<32>> }    \* " "

TagRights ==
    { <<65>>,    \* "A"
      <<65, 114, 116, 105, 99, 108, 101, 32, 84, 105, 116, 108, 101>>,    \* "Article Title"
      <<65, 58, 66>>,    \* "A:B"
      <<>>,    \* ""
      <<104, 116, 116, 112, 115, 58, 47, 47, 101, 110, 46, 119, 105, 107, 105, 112, 101, 100, 105, 97, 46, 111, 114, 103, 47, 119, 105, 107, 105, 47, 65>>,    \* "https://en.wikipedia.org/wiki/A"
      <<104, 116, 116, 112, 58, 47, 47, 100, 101, 46, 109, 46, 119, 105, 107, 105, 112, 101, 100, 105, 97, 46, 111, 114, 103, 47, 119, 105, 107, 105, 47, 66, 35, 83>>,    \* "http://de.m.wikipedia.org/wiki/B#S"
      <<104, 116, 116, 112, 115, 58, 47, 47, 119, 105, 107, 105, 100, 97, 116, 97, 46, 111, 114, 103, 47, 119, 105, 107, 105, 47, 81, 49>>,    \* "https://wikidata.org/wiki/Q1"
      <<47, 47, 101, 110, 46, 119, 105, 107, 105, 112, 101, 100, 105, 97, 46, 111, 114, 103, 47, 119, 105, 107, 105, 47, 65>>,    \* "//en.wikipedia.org/wiki/A"
      <<72, 84, 84, 80, 83, 58, 47, 47, 101, 110, 46, 119, 105, 107, 105, 112, 101, 100, 105, 97, 46, 111, 114, 103, 47, 119, 105, 107, 105, 47, 65>>,    \* "HTTPS://en.wikipedia.org/wiki/A"
      <<104, 116, 116, 112, 115, 58, 47, 101, 110, 46, 119, 105, 107, 105, 112, 101, 100, 105, 97, 46, 111, 114, 103, 47, 119, 105, 107, 105, 47, 65>> }    \* "https:/en.wikipedia.org/wiki/A"

OtherTags ==
    { <<>>,    \* ""
      <<32>>,    \* " "
      <<65>>,    \* "A"
      <<32, 101, 110, 58, 65, 32>>,    \* " en:A "
      <<104, 116, 116, 112, 115, 47, 47, 101, 110, 46, 119, 105, 107, 105, 112, 101, 100, 105, 97, 46, 111, 114, 103, 47, 119, 105, 107, 105, 47, 65>> }    \* "https//en.wikipedia.org/wiki/A"

Tags ==
    {l \o <<58>> \o p \o r : l \in TagLefts, p \in TagPads, r \in TagRights}
    \cup OtherTags

InitPair ==
    /\ mode = "pair"
    /\ pc = "from_title"
    /\ title \in Titles
    /\ lang \in Langs
    /\ url = DesktopUrl(title, lang)
    /\ murl = MobileUrl(title, lang)
    /\ tag = OsmTag(title, lang)

InitUrl ==
    /\ mode = "url"
    /\ pc = "from_url"
    /\ url \in Urls
    /\ title = <<>> /\ lang = <<>> /\ murl = <<>> /\ tag = <<>>

InitTagCall ==
    /\ mode = "tag"
    /\ pc = "from_osm_tag"
    /\ tag \in Tags
    /\ title = <<>> /\ lang = <<>> /\ url = <<>> /\ murl = <<>>

InitTitle ==
    /\ InitPair \/ InitUrl \/ InitTagCall
    /\ ret_title = Pending /\ ret_url = Pending
    /\ ret_mobile = Pending /\ ret_tag = Pending

CallFromTitle ==
    /\ pc = "from_title"
    /\ ret_title' = from_title(title, lang)
    /\ pc' = "from_url"
    /\ UNCHANGED <<mode, title, lang, url, murl, tag, ret_url, ret_mobile, ret_tag>>
    /\ UNCHANGED <<tagVars, listVars>>

CallFromUrl ==
    /\ pc = "from_url"
    /\ ret_url' = from_url(url)
    /\ pc' = IF mode = "pair" THEN "from_url_mobile" ELSE "done"
    /\ UNCHANGED <<mode, title, lang, url, murl, tag, ret_title, ret_mobile, ret_tag>>
    /\ UNCHANGED <<tagVars, listVars>>

CallFromUrlMobile ==
    /\ pc = "from_url_mobile"
    /\ ret_mobile' = from_url(murl)
    /\ pc' = "from_osm_tag"
    /\ UNCHANGED <<mode, title, lang, url, murl, tag, ret_title, ret_url, ret_tag>>
    /\ UNCHANGED <<tagVars, listVars>>

CallFromOsmTag ==
    /\ pc = "from_osm_tag"
    /\ ret_tag' = from_osm_tag(tag)
    /\ pc' = "done"
    /\ UNCHANGED <<mode, title, lang, url, murl, tag, ret_title, ret_url, ret_mobile>>
    /\ UNCHANGED <<tagVars, listVars>>

NextTitle == CallFromTitle \/ CallFromUrl \/ CallFromUrlMobile \/ CallFromOsmTag


(***************************************************************************)
(* Properties of the Title parsers.                                        *)
(***************************************************************************)
\* The Titles the calls made so far have returned.
Returned == {r \in {ret_title, ret_url, ret_mobile, ret_tag} : r.ok}

Bytes(s) == {s[i] : i \in 1..Len(s)}

sXnDashDash == <<120, 110, 45, 45>>                            \* "xn--"

\* A pair whose text means the same in a URL and in a tag as it does alone:
\* the language has no whitespace, is not "http" or "https" and is no "xn--"
\* label; the trimmed title has no '#', '?', '%', '\', tab, line feed or
\* carriage return, no "." or ".." path segment, and does not start with
\* "http://" or "https://".
PlainPair(t, l) ==
    LET tt == Trim(t)
        segs == SplitSlash(tt)
    IN  /\ Bytes(l) \cap WhiteSpace = {}
        /\ l \notin {sHttp, sHttps}
        /\ ~StartsWith(ToAsciiLowercase(l), sXnDashDash)
        /\ Bytes(tt) \cap {35, 63, 37, 92, 9, 10, 13} = {}
        /\ \A k \in 1..Len(segs) : segs[k] \notin {<<46>>, <<46, 46>>}
        /\ ~StartsWith(tt, sHttpSlashes)
        /\ ~StartsWith(tt, sHttpsSlashes)

C2_LongTitleRejected ==
    /\ (ret_title # Pending /\ Len(Trim(title)) >= TitleMaxLen)
          => ret_title = Err("TitleLong")
    /\ \A r \in Returned : Len(r.name) < TitleMaxLen

\* C3: every returned Title has a non-empty lang of ASCII letters and hyphens
\* without an upper-case letter, and a non-empty name without leading or
\* trailing whitespace and without a space.
C3_TitleWellFormed ==
    \A r \in Returned :
        /\ r.lang # <<>>
        /\ \A i \in 1..Len(r.lang) :
              /\ IsAsciiAlphabetic(r.lang[i]) \/ r.lang[i] = 45
              /\ ~(r.lang[i] >= 65 /\ r.lang[i] <= 90)
        /\ r.name # <<>>
        /\ r.name[1] \notin WhiteSpace
        /\ r.name[Len(r.name)] \notin WhiteSpace
        /\ 32 \notin Bytes(r.name)

\* All four parsers returned a Title for an upper-case language and a title
\* with an interior space.
C3_Witness ==
    /\ mode = "pair" /\ pc = "done"
    /\ ret_title.ok /\ ret_url.ok /\ ret_mobile.ok /\ ret_tag.ok
    /\ \E i \in 1..Len(lang) : lang[i] >= 65 /\ lang[i] <= 90
    /\ 32 \in Bytes(Trim(title))

\* The tag at its first colon.
TagParts == SplitOnce(Trim(tag), 58)

\* C6 (as claimed): with left and right the text before and after the first
\* colon, the result is from_url(tag) if left is "http" or "https", else
\* from_url(right) if right starts with "http://" or "https://", else
\* from_title(right, left).
C6_DispatchOnColon ==
    (ret_tag # Pending /\ TagParts.found) =>
        ret_tag =
            IF TagParts.left \in {sHttp, sHttps} THEN from_url(Trim(tag))
            ELSE IF \/ StartsWith(TagParts.right, sHttpSlashes)
                    \/ StartsWith(TagParts.right, sHttpsSlashes)
            THEN from_url(TagParts.right)
            ELSE from_title(TagParts.right, TagParts.left)

\* C6 (amended): as claimed, with right taken after its leading whitespace
\* is stripped.
C6_DispatchOnColonTrimmed ==
    (ret_tag # Pending /\ TagParts.found) =>
        LET right == TrimStart(TagParts.right)
        IN  ret_tag =
                IF TagParts.left \in {sHttp, sHttps} THEN from_url(Trim(tag))
                ELSE IF \/ StartsWith(right, sHttpSlashes)
                        \/ StartsWith(right, sHttpsSlashes)
                THEN from_url(right)
                ELSE from_title(right, TagParts.left)

\* A tag "lang: <url>" returned the URL's Title, in a language other than
\* the tag's.
C6_Witness ==
    /\ mode = "tag" /\ pc = "done" /\ ret_tag.ok /\ TagParts.found
    /\ TagParts.left \notin {sHttp, sHttps}
    /\ TagParts.right # TrimStart(TagParts.right)
    /\ StartsWith(TrimStart(TagParts.right), sHttpsSlashes)
    /\ from_title(<<65>>, TagParts.left).ok
    /\ ret_tag.lang # ToAsciiLowercase(TagParts.left)

\* The URL as Url::parse sees it.
ParsedUrl == UrlParse(Trim(url))

HostParts == SplitOnce(ParsedUrl.host, 46)

sSlashWikiSlash == <<47, 119, 105, 107, 105, 47>>              \* "/wiki/"

\* The host is <sub>.wikipedia.org or <sub>.m.wikipedia.org.
WikipediaHost ==
    /\ ParsedUrl.ok /\ ParsedUrl.hasHost /\ HostParts.found
    /\ HostParts.right \in {sWikipediaOrg, sMDot \o sWikipediaOrg}

\* The path after "/wiki/".
Remainder == SubSeq(ParsedUrl.path, 7, Len(ParsedUrl.path))

\* The path after its leading '/'.
PathTail == SubSeq(ParsedUrl.path, 2, Len(ParsedUrl.path))

\* C7: from_url returns a Title only for a host <sub>.wikipedia.org or
\* <sub>.m.wikipedia.org and a path "/wiki/" with a non-empty remainder, and
\* then returns from_title(decoded remainder, sub); a host without a dot
\* fails with NoSubdomain, another base domain with BadDomain, a path without
\* a second segment with ShortPath, a first segment other than "wiki" with
\* BadPath.
C7_FromUrl ==
    ret_url # Pending =>
        /\ ret_url.ok =>
              /\ WikipediaHost
              /\ StartsWith(ParsedUrl.path, sSlashWikiSlash)
              /\ Remainder # <<>>
        /\ ( /\ WikipediaHost
             /\ StartsWith(ParsedUrl.path, sSlashWikiSlash)
             /\ Utf8ValidFrom(PercentDecode(Remainder), 1) )
              => ret_url = from_title(PercentDecode(Remainder), HostParts.left)
        /\ (ParsedUrl.ok /\ ParsedUrl.hasHost /\ ~HostParts.found)
              => ret_url = Err("NoSubdomain")
        /\ (ParsedUrl.ok /\ ParsedUrl.hasHost /\ HostParts.found /\ ~WikipediaHost)
              => ret_url = Err("BadDomain")
        /\ (WikipediaHost /\ 47 \notin Bytes(PathTail))
              => ret_url = Err("ShortPath")
        /\ ( /\ WikipediaHost /\ 47 \in Bytes(PathTail)
             /\ ~StartsWith(ParsedUrl.path, sSlashWikiSlash) )
              => ret_url = Err("BadPath")

\* from_url returned the Title of a mobile URL whose title has a '/' in it.
C7_Witness ==
    /\ mode = "url" /\ pc = "done" /\ ret_url.ok
    /\ StartsWith(HostParts.right, sMDot)
    /\ 47 \in Bytes(Remainder)
    /\ ret_url.name = Remainder

(***************************************************************************)
(* Qid::from_str (src/wm/qid.rs): the text is trimmed, then a 'Q' and a    *)
(* non-empty body of digits are required.  A Qid is its number.            *)
(***************************************************************************)
RECURSIVE DecimalValue(_, _)
DecimalValue(s, n) ==
    IF n = 0 THEN 0 ELSE 10 * DecimalValue(s, n - 1) + (s[n] - 48)

qid_from_str(s) ==
    LET t == Trim(s)
        body == SubSeq(t, 2, Len(t))
    IN  IF t = <<>> THEN [ok |-> FALSE, err |-> "Empty", qid |-> 0]
        ELSE IF t[1] # 81 THEN [ok |-> FALSE, err |-> "BadPrefix", qid |-> 0]
        ELSE IF body = <<>> \/ \E i \in 1..Len(body) : ~IsAsciiDigit(body[i])
        THEN [ok |-> FALSE, err |-> "BadNumber", qid |-> 0]
        ELSE [ok |-> TRUE, err |-> "", qid |-> DecimalValue(body, Len(body))]

(***************************************************************************)
(* parse_osm_tag_file (src/wm/mod.rs).                                     *)
(*                                                                         *)
(* The file is a header and a stream of records that the csv reader hands  *)
(* out one read_record call at a time: a record, a decoding failure, an    *)
(* I/O failure or the end of the stream.  rdr.position() is the reader's   *)
(* position after what it has consumed: its line is 1 plus the number of   *)
(* line feeds consumed.  A record that ends in a line feed is consumed     *)
(* with it; a record that ends in CR LF is handed out at the CR, its line  *)
(* feed is consumed by the next read; the last record may end at the end   *)
(* of the file.                                                            *)
(***************************************************************************)
None == [some |-> FALSE, val |-> 0]

Some(v) == [some |-> TRUE, val |-> v]

sWikidata == <<119, 105, 107, 105, 100, 97, 116, 97>>           \* "wikidata"
sWikipedia == <<119, 105, 107, 105, 112, 101, 100, 105, 97>>     \* "wikipedia"
sAtId == <<64, 105, 100>>                                        \* "@id"
sWikidataCap == <<87, 105, 107, 105, 100, 97, 116, 97>>         \* "Wikidata"
sName == <<110, 97, 109, 101>>                                 \* "name"

Headers ==
    { <<sWikidata, sWikipedia>>,
      <<sAtId, sWikipedia, sWikidata>>,
      <<sWikidata, sName, sWikipedia, sWikidata>>,
      <<sWikipedia, sAtId>>,
      <<sWikidata, sName>>,
      <<sWikidataCap, sWikipedia>>,
      <<>> }

QidCells ==
    { <<>>,    \* ""
      <<32, 81, 49, 32>>,    \* " Q1 "
      <<88, 49>> }    \* "X1"

TitleCells ==
    { <<>>,    \* ""
      <<101, 110, 58, 65>>,    \* "en:A"
      <<110, 111, 99, 111, 108, 111, 110>> }    \* "nocolon"

IdCells ==
    { <<55>>,    \* "7"
      <<120>> }    \* "x"

\* The cells a column may hold: identifiers under "wikidata", tags under
\* "wikipedia", row ids under "@id", nothing elsewhere (an earlier
\* "wikidata" column of two holds nothing either).
CellsOf(header, k) ==
    IF header[k] = sWikipedia THEN TitleCells
    ELSE IF header[k] = sAtId THEN IdCells
    ELSE IF header[k] \in {sWikidata, sWikidataCap}
            /\ \A j \in (k + 1)..Len(header) : header[j] # header[k]
    THEN QidCells
    ELSE {<<>>}

\* The records of a file with the given header, column by column (the reader
\* is not flexible: a record of another length is a decoding failure).
RECURSIVE RecordsUpTo(_, _)
RecordsUpTo(header, k) ==
    IF k = 0 THEN {<<>>}
    ELSE {Append(r, c) : r \in RecordsUpTo(header, k - 1), c \in CellsOf(header, k)}

Records(header) == RecordsUpTo(header, Len(header))

\* A Title as the caller's set holds it.
TitleOf(r) == [lang |-> r.lang, name |-> r.name]

\* ParseLineError
LineError(text, line, id, kind, cause) ==
    [text |-> text, line |-> line, osm_id |-> id, kind |-> kind, cause |-> cause]

\* What the caller's collections may hold before the call.
OldQids == {9}

OldTitles == {[lang |-> <<100, 101>>, name |-> <<90>>]}        \* de:Z

OldErrors == <<LineError(<<88>>, 5, None, "Qid", "BadPrefix")>>

\* The match of lines 77-82 with the names compared without case.
header_column_IgnoreCase(header, name) ==
    LET at == {k \in 1..Len(header) :
                  ToAsciiLowercase(header[k]) = ToAsciiLowercase(name)}
    IN  IF at = {} THEN None
        ELSE Some((CHOOSE k \in at : \A j \in at : j <= k) - 1)

\* header.iter().enumerate() with the match of lines 77-82: the last column
\* of that name.
header_column(header, name) ==
    LET at == {k \in 1..Len(header) : header[k] = name}
    IN  IF at = {} THEN None
        ELSE Some((CHOOSE k \in at : \A j \in at : j <= k) - 1)

\* str::parse::<usize>().ok(): an optional '+' and digits.
parse_usize(s) ==
    LET d == IF s # <<>> /\ s[1] = 43 THEN SubSeq(s, 2, Len(s)) ELSE s
    IN  IF d = <<>> \/ \E i \in 1..Len(d) : ~IsAsciiDigit(d[i]) THEN None
        ELSE Some(DecimalValue(d, Len(d)))

\* The closure push_error, with the Vec replaced.
push_error_Replace(errs, e) ==
    IF errs.some THEN Some(<<e>>) ELSE errs

\* The closure push_error: the diagnostic is logged, and appended if the
\* caller gave a Vec.
push_error(errs, e) ==
    IF errs.some THEN Some(Append(errs.val, e)) ELSE errs

InitOutputs ==
    \/ /\ qids0 = {} /\ titles0 = {} /\ errs0 = None
    \/ /\ qids0 = OldQids /\ titles0 = OldTitles /\ errs0 = Some(OldErrors)

\* No Title call is being made.
IdleTitle ==
    /\ mode = "idle" /\ pc = "done"
    /\ title = <<>> /\ lang = <<>> /\ url = <<>> /\ murl = <<>> /\ tag = <<>>
    /\ ret_title = Pending /\ ret_url = Pending
    /\ ret_mobile = Pending /\ ret_tag = Pending

InitTag ==
    /\ IdleTitle
    /\ f_readable \in BOOLEAN
    /\ f_header \in Headers
    /\ InitOutputs
    /\ qids = qids0 /\ titles = titles0 /\ line_errors = errs0
    /\ t_pc = "open"
    /\ t_ret = "pending"
    /\ qid_col = None /\ title_col = None /\ osm_id_col = None
    /\ row = <<>> /\ osm_id = None
    /\ last = "none" /\ rows_read = 0
    /\ rec_line = 0 /\ pos_line = 1

\* ReaderBuilder::from_path(path)?
OpenFile ==
    /\ t_pc = "open"
    /\ IF f_readable
       THEN /\ t_pc' = "headers"
            /\ t_ret' = t_ret
       ELSE /\ t_pc' = "return"
            /\ t_ret' = "Err(io)"
    /\ UNCHANGED <<f_readable, f_header, qid_col, title_col, osm_id_col, row,
                   osm_id, last, rows_read, rec_line, pos_line, qids, titles,
                   line_errors, qids0, titles0, errs0>>
    /\ UNCHANGED <<titleVars, listVars>>

\* Lines 73-86: the columns are looked up, and both mandatory ones must be
\* there.
ReadHeaders ==
    /\ t_pc = "headers"
    /\ qid_col' = header_column(f_header, sWikidata)
    /\ title_col' = header_column(f_header, sWikipedia)
    /\ osm_id_col' = header_column(f_header, sAtId)
    /\ rec_line' = 1
    /\ IF ~qid_col'.some
       THEN t_pc' = "return" /\ t_ret' = "Err(Cannot find 'wikidata' column)"
       ELSE IF ~title_col'.some
       THEN t_pc' = "return" /\ t_ret' = "Err(Cannot find 'wikipedia' column)"
       ELSE t_pc' = "read" /\ t_ret' = t_ret
    /\ UNCHANGED <<f_readable, f_header, row, osm_id, last, rows_read, pos_line,
                   qids, titles, line_errors, qids0, titles0, errs0>>
    /\ UNCHANGED <<titleVars, listVars>>

Terminators == {"lf", "crlf", "eof"}

\* The reader's line after it handed out the row on line n that ends as
\* term says.
PositionLine(n, term) == IF term = "lf" THEN n + 1 ELSE n

\* Lines 95-106 with every read failure fatal.
OnReadError_AllFatal(io, term) ==
    /\ last' = (IF io THEN "io" ELSE "decode")
    /\ t_pc' = "return" /\ t_ret' = "Err(csv)"
    /\ UNCHANGED <<rows_read, rec_line, pos_line, line_errors>>

\* Lines 95-106: read_record failed.  An I/O failure ends the call; a
\* decoding failure is pushed as a diagnostic and the loop continues.
OnReadError(io, term) ==
    IF io
    THEN /\ last' = "io"
         /\ t_pc' = "return" /\ t_ret' = "Err(csv)"
         /\ UNCHANGED <<rows_read, rec_line, pos_line, line_errors>>
    ELSE /\ rows_read < MaxRows
         /\ last' = (IF term = "eof" THEN "decode_eof" ELSE "decode")
         /\ rows_read' = rows_read + 1
         /\ rec_line' = rec_line + 1
         /\ pos_line' = PositionLine(rec_line', term)
         /\ line_errors' =
                push_error(line_errors,
                           LineError(<<>>, pos_line', None, "Tsv", "csv"))
         /\ t_pc' = "read" /\ t_ret' = t_ret

\* The last row ended at the end of the file: the stream is exhausted.
AtEof == last \in {"record_eof", "decode_eof"}

\* Line 90, rdr.read_record(&mut row), and the match of lines 90-107 on it.
ReadRecord ==
    /\ t_pc = "read"
    /\ \/ /\ last' = "eof"                              \* Ok(false)
          /\ t_pc' = "return" /\ t_ret' = "Ok"
          /\ UNCHANGED <<row, osm_id, rows_read, rec_line, pos_line, line_errors>>
       \/ /\ ~AtEof                                      \* Err(e)
          /\ \E io \in BOOLEAN, term \in Terminators : OnReadError(io, term)
          /\ UNCHANGED <<row, osm_id>>
       \/ /\ ~AtEof /\ rows_read < MaxRows               \* Ok(true)
          /\ \E r \in Records(f_header), term \in Terminators :
                /\ row' = r
                /\ last' = (IF term = "eof" THEN "record_eof" ELSE "record")
                /\ rec_line' = rec_line + 1
                /\ pos_line' = PositionLine(rec_line', term)
                /\ osm_id' = IF osm_id_col.some
                             THEN parse_usize(r[osm_id_col.val + 1]) ELSE None
          /\ rows_read' = rows_read + 1
          /\ t_pc' = "qid" /\ t_ret' = t_ret
          /\ UNCHANGED line_errors
    /\ UNCHANGED <<f_readable, f_header, qid_col, title_col, osm_id_col, qids,
                   titles, qids0, titles0, errs0>>
    /\ UNCHANGED <<titleVars, listVars>>

\* Lines 111-124: the identifier cell.
ParseQidCell ==
    /\ t_pc = "qid"
    /\ LET qid == Trim(row[qid_col.val + 1])
           r == qid_from_str(qid)
       IN  IF qid = <<>> THEN UNCHANGED <<qids, line_errors>>
           ELSE IF r.ok
           THEN qids' = qids \cup {r.qid} /\ UNCHANGED line_errors
           ELSE /\ line_errors' =
                      push_error(line_errors,
                                 LineError(qid, pos_line, osm_id, "Qid", r.err))
                /\ UNCHANGED qids
    /\ t_pc' = "title"
    /\ UNCHANGED <<f_readable, f_header, t_ret, qid_col, title_col, osm_id_col,
                   row, osm_id, last, rows_read, rec_line, pos_line, titles,
                   qids0, titles0, errs0>>
    /\ UNCHANGED <<titleVars, listVars>>

\* Lines 126-139: the title cell; the iteration ends and with it the record
\* and the row id it read.
ParseTitleCell ==
    /\ t_pc = "title"
    /\ LET cell == Trim(row[title_col.val + 1])
           r == from_osm_tag(cell)
       IN  IF cell = <<>> THEN UNCHANGED <<titles, line_errors>>
           ELSE IF r.ok
           THEN titles' = titles \cup {TitleOf(r)} /\ UNCHANGED line_errors
           ELSE /\ line_errors' =
                      push_error(line_errors,
                                 LineError(cell, pos_line, osm_id, "Title", r.err))
                /\ UNCHANGED titles
    /\ row' = <<>> /\ osm_id' = None
    /\ t_pc' = "read"
    /\ UNCHANGED <<f_readable, f_header, t_ret, qid_col, title_col, osm_id_col,
                   last, rows_read, rec_line, pos_line, qids,
                   qids0, titles0, errs0>>
    /\ UNCHANGED <<titleVars, listVars>>

NextTag == OpenFile \/ ReadHeaders \/ ReadRecord \/ ParseQidCell \/ ParseTitleCell

\* No tag file is being read.
IdleTag ==
    /\ f_readable = FALSE /\ f_header = <<>>
    /\ qids0 = {} /\ titles0 = {} /\ errs0 = None
    /\ qids = {} /\ titles = {} /\ line_errors = None
    /\ t_pc = "idle" /\ t_ret = "pending"
    /\ qid_col = None /\ title_col = None /\ osm_id_col = None
    /\ row = <<>> /\ osm_id = None
    /\ last = "none" /\ rows_read = 0
    /\ rec_line = 0 /\ pos_line = 1

(***************************************************************************)
(* parse_wikidata_file and parse_wikipedia_file (src/wm/mod.rs).           *)
(*                                                                         *)
(* The file is read whole, and the iterator chain of lines 16-32 (35-54)   *)
(* is driven by collect one line at a time.  The caller reads the file     *)
(* and then a file of the same lines in another order.                     *)
(***************************************************************************)
QidLines ==
    { <<81, 49>>,
        \* "Q1"
      <<81, 50>>,
        \* "Q2"
      <<>>,
        \* ""
      <<88, 49>> }
        \* "X1"

UrlLines ==
    { <<104, 116, 116, 112, 115, 58, 47, 47, 101, 110, 46, 119, 105, 107, 105, 112, 101, 100, 105, 97, 46, 111, 114, 103, 47, 119, 105, 107, 105, 47, 65>>,
        \* "https://en.wikipedia.org/wiki/A"
      <<104, 116, 116, 112, 115, 58, 47, 47, 100, 101, 46, 119, 105, 107, 105, 112, 101, 100, 105, 97, 46, 111, 114, 103, 47, 119, 105, 107, 105, 47, 66>>,
        \* "https://de.wikipedia.org/wiki/B"
      <<>>,
        \* ""
      <<110, 111, 117, 114, 108>> }
        \* "nourl"

LinesOf(kind) == IF kind = "wikidata" THEN QidLines ELSE UrlLines

LineEndings == {<<10>>, <<13, 10>>}

\* The text of a file of the given lines, each ended by ending, the last
\* one only if final says so.
FileText(ls, ending, final) ==
    Flat([i \in 1..Len(ls) |->
             IF i < Len(ls) \/ final THEN ls[i] \o ending ELSE ls[i]],
         1, Len(ls))

\* The orders the lines of ls can be in.
LineOrders(ls) ==
    {[i \in 1..Len(ls) |-> ls[p[i]]] :
        p \in {q \in [1..Len(ls) -> 1..Len(ls)] :
                  \A i, j \in 1..Len(ls) : q[i] = q[j] => i = j}}

\* str::lines: the text is cut after every line feed, a carriage return
\* before the line feed goes with it, and what follows the last line feed is
\* a line if it is not empty.
lines(text) ==
    LET lf == {i \in 1..Len(text) : text[i] = 10}
        n == Cardinality(lf)
        end(k) == CHOOSE i \in lf : Cardinality({j \in lf : j < i}) = k - 1
        start(k) == IF k = 1 THEN 1 ELSE end(k - 1) + 1
        cut(k) == IF end(k) > start(k) /\ text[end(k) - 1] = 13
                  THEN end(k) - 2 ELSE end(k) - 1
        tail == IF n = 0 THEN text ELSE SubSeq(text, end(n) + 1, Len(text))
        whole == [k \in 1..n |-> SubSeq(text, start(k), cut(k))]
    IN  IF tail = <<>> THEN whole ELSE Append(whole, tail)

\* Qid::from_str(line) or Title::from_url(line), as a Result.
parse_line(kind, line) ==
    IF kind = "wikidata"
    THEN LET r == qid_from_str(line) IN [ok |-> r.ok, val |-> r.qid]
    ELSE LET r == from_url(line) IN [ok |-> r.ok, val |-> TitleOf(r)]

\* The filter_map of lines 25-31 with a failed line emptying the set.
filter_map_collect_ErrClears(set, r) ==
    IF r.ok THEN set \cup {r.val} ELSE {}

\* The filter_map of lines 25-31 (45-51) and the insert of collect: a line
\* that parsed is inserted, one that failed is logged and dropped.
filter_map_collect(set, r) ==
    IF r.ok THEN set \cup {r.val} ELSE set

InitList ==
    /\ IdleTitle /\ IdleTag
    /\ l_kind \in {"wikidata", "wikipedia"}
    /\ \E ls \in UNION {[1..n -> LinesOf(l_kind)] : n \in 0..MaxLines},
          ending \in LineEndings, final \in BOOLEAN :
            /\ l_file = FileText(ls, ending, final)
            /\ l_perm \in {FileText(p, ending, final) : p \in LineOrders(ls)}
    /\ l_call = 1
    /\ l_pc = "read"
    /\ l_i = 0
    /\ l_set = {}
    /\ l_ret = "pending"
    /\ l_first = [ret |-> "pending", set |-> {}]

\* The file the call under way reads.
Contents == IF l_call = 1 THEN l_file ELSE l_perm

\* fs::read_to_string(path.as_ref())?
ReadToString ==
    /\ l_pc = "read"
    /\ \/ l_pc' = "lines" /\ l_ret' = l_ret
       \/ l_pc' = "return" /\ l_ret' = "Err(io)"
    /\ UNCHANGED <<l_kind, l_file, l_perm, l_call, l_i, l_set, l_first>>
    /\ UNCHANGED <<titleVars, tagVars>>

\* One line through enumerate, map and filter_map into the set.
CollectLine ==
    /\ l_pc = "lines"
    /\ l_i < Len(lines(Contents))
    /\ l_i' = l_i + 1
    /\ l_set' = filter_map_collect(l_set, parse_line(l_kind, lines(Contents)[l_i']))
    /\ UNCHANGED <<l_kind, l_file, l_perm, l_call, l_pc, l_ret, l_first>>
    /\ UNCHANGED <<titleVars, tagVars>>

\* The lines are exhausted: Ok(set).
ReturnSet ==
    /\ l_pc = "lines"
    /\ l_i = Len(lines(Contents))
    /\ l_pc' = "return"
    /\ l_ret' = "Ok"
    /\ UNCHANGED <<l_kind, l_file, l_perm, l_call, l_i, l_set, l_first>>
    /\ UNCHANGED <<titleVars, tagVars>>

\* The caller keeps what the call returned and calls again on the file of
\* the same lines in another order.
CallOnPermuted ==
    /\ l_pc = "return"
    /\ l_call = 1
    /\ l_ret = "Ok"
    /\ l_first' = [ret |-> l_ret, set |-> l_set]
    /\ l_call' = 2
    /\ l_pc' = "read"
    /\ l_i' = 0
    /\ l_set' = {}
    /\ l_ret' = "pending"
    /\ UNCHANGED <<l_kind, l_file, l_perm>>
    /\ UNCHANGED <<titleVars, tagVars>>

NextList == ReadToString \/ CollectLine \/ ReturnSet \/ CallOnPermuted

\* No list file is being read.
IdleList ==
    /\ l_kind = "none" /\ l_file = <<>> /\ l_perm = <<>>
    /\ l_call = 0 /\ l_pc = "idle" /\ l_i = 0
    /\ l_set = {} /\ l_ret = "pending"
    /\ l_first = [ret |-> "pending", set |-> {}]

vars == <<titleVars, tagVars, listVars>>

InitSpec == InitTitle /\ IdleTag /\ IdleList

InitSpecTag == InitTag /\ IdleList

Spec == InitSpec /\ [][NextTitle]_vars

SpecTag == InitSpecTag /\ [][NextTag]_vars

SpecList == InitList /\ [][NextList]_vars

(***************************************************************************)
(* The tag-file reader: properties.                                        *)
(***************************************************************************)
\* A mandatory column is not among the header's names.
MissingColumn ==
    \/ \A k \in 1..Len(f_header) : f_header[k] # sWikidata
    \/ \A k \in 1..Len(f_header) : f_header[k] # sWikipedia

\* The caller's Vec holds its initial contents and then the diagnostics ds.
Appended(before, after, ds) ==
    IF before.some THEN after = Some(before.val \o ds) ELSE after = before

\* before is after's beginning.
IsPrefix(before, after) ==
    /\ before.some = after.some
    /\ before.some =>
          /\ Len(before.val) <= Len(after.val)
          /\ SubSeq(after.val, 1, Len(before.val)) = before.val

\* C4: when the header lacks a column named exactly "wikidata" or one named
\* exactly "wikipedia", the call returns an error before any data row is
\* read: nothing is inserted into qids or titles and no diagnostic is
\* appended to line_errors.
C4_MissingColumnFatal ==
    MissingColumn =>
        /\ t_pc \in {"open", "headers", "return"}
        /\ t_pc = "return" => t_ret \notin {"Ok", "pending"}
        /\ rows_read = 0 /\ last = "none" /\ row = <<>>
        /\ qids = qids0 /\ titles = titles0 /\ line_errors = errs0

\* A readable file whose header has names but not both mandatory ones has
\* been given with non-empty collections, and the call has returned.
C4_Witness ==
    /\ t_pc = "return" /\ f_readable
    /\ MissingColumn /\ f_header # <<>>
    /\ qids0 # {} /\ errs0.some

\* The cells of the row of this iteration, trimmed.
QidCell == Trim(row[qid_col.val + 1])

TitleCell == Trim(row[title_col.val + 1])

QidMalformed == QidCell # <<>> /\ ~qid_from_str(QidCell).ok

TitleValid == TitleCell # <<>> /\ from_osm_tag(TitleCell).ok

\* C5 (as claimed): for a row that decodes and whose identifier cell is
\* non-empty and malformed while its title cell is valid, the title is still
\* inserted, and the identifier failure is recorded as exactly one
\* diagnostic whose line is the 1-based line number of the row in the file.
C5_CellsIndependent ==
    [][ /\ (t_pc = "qid" /\ QidMalformed /\ TitleValid) =>
              /\ \E e \in [text : {QidCell}, line : {rec_line}, osm_id : {osm_id},
                           kind : {"Qid"}, cause : {qid_from_str(QidCell).err}] :
                    Appended(line_errors, line_errors', <<e>>)
              /\ qids' = qids /\ titles' = titles
        /\ (t_pc = "title" /\ QidMalformed /\ TitleValid) =>
              /\ titles' = titles \cup {TitleOf(from_osm_tag(TitleCell))}
              /\ line_errors' = line_errors /\ qids' = qids
      ]_vars

\* C9: an I/O failure of read_record ends the call at once with an error; a
\* decoding failure appends exactly one diagnostic (empty text, no row id,
\* kind Tsv), inserts nothing, and the loop reads on; the call returns
\* success only when the stream is exhausted, and nothing happens after it
\* returned.
C9_ReadFailures ==
    [][ /\ (t_pc = "read" /\ last' = "io") =>
              /\ t_pc' = "return" /\ t_ret' \notin {"Ok", "pending"}
              /\ UNCHANGED <<qids, titles, line_errors, rows_read>>
        /\ (t_pc = "read" /\ last' \in {"decode", "decode_eof"}) =>
              /\ t_pc' = "read" /\ t_ret' = "pending"
              /\ UNCHANGED <<qids, titles>>
              /\ rows_read' = rows_read + 1
              /\ \E n \in 1..(MaxRows + 2) :
                    Appended(line_errors, line_errors',
                             <<LineError(<<>>, n, None, "Tsv", "csv")>>)
        /\ (t_pc = "read" /\ t_pc' = "return") =>
              /\ last' \in {"io", "eof"}
              /\ t_ret' = "Ok" <=> last' = "eof"
        /\ t_pc = "return" => UNCHANGED tagVars
      ]_vars

\* A decoding failure was followed by a row that was processed, and then an
\* I/O failure ended the call.
C9_Witness ==
    /\ t_pc = "return" /\ last = "io"
    /\ line_errors.some
    /\ \E i \in 1..Len(line_errors.val) : line_errors.val[i].kind = "Tsv"
    /\ titles # titles0
    /\ rows_read = 2

\* C10: at every point of the call qids and titles are supersets of what
\* the caller passed and line_errors begins with what it held, and no step
\* of the call takes anything back.
C10_OutputsOnlyGrow ==
    /\ [](/\ qids0 \subseteq qids
          /\ titles0 \subseteq titles
          /\ IsPrefix(errs0, line_errors))
    /\ [][ /\ qids \subseteq qids'
           /\ titles \subseteq titles'
           /\ IsPrefix(line_errors, line_errors')
           /\ UNCHANGED <<qids0, titles0, errs0>> ]_vars

\* An I/O failure ended the call part-way: what the rows before it added to
\* the caller's non-empty collections is there.
C10_Witness ==
    /\ t_pc = "return" /\ last = "io"
    /\ qids0 # {} /\ qids # qids0 /\ titles # titles0
    /\ errs0.some /\ Len(line_errors.val) > Len(errs0.val)

(***************************************************************************)
(* The list-file readers: properties.                                      *)
(***************************************************************************)
\* The results of parsing the lines of text one by one.
LineResults(text) ==
    {parse_line(l_kind, lines(text)[i]) : i \in 1..Len(lines(text))}

\* The values of the lines of text that parse.
ParsedValues(text) == {r.val : r \in {x \in LineResults(text) : x.ok}}

\* C8: once the file has been read the call returns success, and the set it
\* returns is exactly the values of the lines that parse, so that it is the
\* same for the file with its lines in another order, a valid line that
\* occurs twice gives one entry, and a blank or unparseable line gives none
\* and does not make the call fail.
C8_ListFileSet ==
    /\ l_pc = "return" => l_ret \in {"Ok", "Err(io)"}
    /\ (l_pc = "return" /\ l_ret = "Err(io)") => (l_i = 0 /\ l_set = {})
    /\ (l_pc = "return" /\ l_ret = "Ok") =>
          /\ l_i = Len(lines(Contents))
          /\ l_set = ParsedValues(Contents)
    /\ (l_pc = "return" /\ l_ret = "Ok" /\ l_call = 2) =>
          /\ l_first.ret = "Ok"
          /\ l_set = l_first.set

\* Both calls returned, on files of the same three lines in different
\* orders: a valid line twice and an unparseable line that is not blank.
C8_Witness ==
    /\ l_pc = "return" /\ l_call = 2 /\ l_ret = "Ok"
    /\ l_file # l_perm
    /\ Len(lines(l_file)) = 3
    /\ Cardinality(l_set) = 1
    /\ \E i \in 1..3 : /\ lines(l_file)[i] # <<>>
                       /\ ~parse_line(l_kind, lines(l_file)[i]).ok
    /\ \E i, j \in 1..3 : i # j /\ lines(l_file)[i] = lines(l_file)[j]

====
